---- MODULE Spec2Model ----
(***************************************************************************)
(* Ticket reservation backend: src/server.js (the running server) and the  *)
(* later revision kept in src/models/tickets.js (POST handler that also    *)
(* sends e-mails, plus the CSV export).                                    *)
(*                                                                         *)
(* JavaScript values are records [t, s, n]: t is the typeof-like tag, s    *)
(* the characters of a string (a sequence of one-character strings), n a   *)
(* number in tenths (15 is 1.5), so that non-integer quantities exist.     *)
(***************************************************************************)
EXTENDS Integers, Sequences, FiniteSets, TLC

\* ------------------------------------------------------------ bounds
\* POST requests one run of server.js receives.
MaxPosts == 2
\* POST requests one run receives when the tickets.js revision (e-mails,
\* export) runs beside server.js.
MaxMailPosts == 1
\* Largest value of the millisecond clock (Date.now) in a run.
MaxClock == 1
\* Records in the store when the export runs (export specification).
MaxDocs == 2

\* ------------------------------------------------- program constants
NameMaxLen == 80
EmailMaxLen == 160
NotesMaxLen == 1000
QtyMin == 1
QtyMax == 20
ListLimit == 50

\* ------------------------------------------------------- JS values
Undefined == [t |-> "undefined", s |-> <<>>, n |-> 0]
Null == [t |-> "null", s |-> <<>>, n |-> 0]
NaN == [t |-> "nan", s |-> <<>>, n |-> 0]
Str(cs) == [t |-> "string", s |-> cs, n |-> 0]
\* the number x/10
Tenths(x) == [t |-> "number", s |-> <<>>, n |-> x]
Num(i) == Tenths(10 * i)
True == [t |-> "boolean", s |-> <<>>, n |-> 1]
\* the Date of clock value ms
DateOf(ms) == [t |-> "date", s |-> <<>>, n |-> ms]

Rep(c, k) == [i \in 1..k |-> c]

Digits == {"0", "1", "2", "3", "4", "5", "6", "7", "8", "9"}
DigitVal(c) ==
  CASE c = "0" -> 0 [] c = "1" -> 1 [] c = "2" -> 2 [] c = "3" -> 3
    [] c = "4" -> 4 [] c = "5" -> 5 [] c = "6" -> 6 [] c = "7" -> 7
    [] c = "8" -> 8 [] OTHER -> 9
DigitChar(d) ==
  CASE d = 0 -> "0" [] d = 1 -> "1" [] d = 2 -> "2" [] d = 3 -> "3"
    [] d = 4 -> "4" [] d = 5 -> "5" [] d = 6 -> "6" [] d = 7 -> "7"
    [] d = 8 -> "8" [] OTHER -> "9"

IsSpace(c) == c = " "

\* String.prototype.trim
RECURSIVE TrimLeft(_)
TrimLeft(cs) ==
  IF cs # <<>> /\ IsSpace(Head(cs)) THEN TrimLeft(Tail(cs)) ELSE cs
RECURSIVE TrimRight(_)
TrimRight(cs) ==
  IF cs # <<>> /\ IsSpace(cs[Len(cs)])
  THEN TrimRight(SubSeq(cs, 1, Len(cs) - 1)) ELSE cs
Trim(cs) == TrimRight(TrimLeft(cs))

\* String.prototype.toLowerCase on the letters of the model's alphabet
LowerChar(c) ==
  CASE c = "A" -> "a" [] c = "B" -> "b" [] c = "G" -> "g" [] c = "H" -> "h"
    [] c = "I" -> "i" [] c = "L" -> "l" [] c = "P" -> "p" [] c = "S" -> "s"
    [] c = "T" -> "t" [] c = "V" -> "v" [] c = "W" -> "w" [] c = "D" -> "d"
    [] OTHER -> c
ToLowerCase(cs) == [i \in 1..Len(cs) |-> LowerChar(cs[i])]

\* decimal digits of a natural number
RECURSIVE NatToStr(_)
NatToStr(k) ==
  IF k < 10 THEN <<DigitChar(k)>>
  ELSE NatToStr(k \div 10) \o <<DigitChar(k % 10)>>
RECURSIVE DecVal(_)
DecVal(cs) ==
  IF cs = <<>> THEN 0
  ELSE 10 * DecVal(SubSeq(cs, 1, Len(cs) - 1)) + DigitVal(cs[Len(cs)])
AllDigits(cs) == cs # <<>> /\ \A i \in 1..Len(cs) : cs[i] \in Digits

\* ToBoolean: what `!v` negates
Truthy(v) ==
  CASE v.t = "string" -> v.s # <<>>
    [] v.t = "number" -> v.n # 0
    [] v.t = "boolean" -> v.n = 1
    [] OTHER -> FALSE

\* Number(v).  Strings: trimmed; empty is 0; decimal digits, optionally
\* followed by "." and one digit, are that number; anything else NaN.
ToNumber(v) ==
  CASE v.t = "number" -> v
    [] v.t = "boolean" -> Num(v.n)
    [] v.t = "null" -> Num(0)
    [] v.t = "string" ->
         LET cs == Trim(v.s) IN
         IF cs = <<>> THEN Num(0)
         ELSE IF AllDigits(cs) THEN Num(DecVal(cs))
         ELSE IF Len(cs) >= 3 /\ cs[Len(cs) - 1] = "."
                 /\ AllDigits(SubSeq(cs, 1, Len(cs) - 2))
                 /\ cs[Len(cs)] \in Digits
              THEN Tenths(10 * DecVal(SubSeq(cs, 1, Len(cs) - 2))
                          + DigitVal(cs[Len(cs)]))
         ELSE NaN
    [] OTHER -> NaN

\* String(v) for the values the model holds (numbers are never negative; a
\* Date prints as "T" and its milliseconds, standing for Date's toString)
ToStr(v) ==
  CASE v.t = "string" -> v.s
    [] v.t = "number" ->
         IF v.n % 10 = 0 THEN NatToStr(v.n \div 10)
         ELSE NatToStr(v.n \div 10) \o <<".">> \o <<DigitChar(v.n % 10)>>
    [] v.t = "date" -> <<"T">> \o NatToStr(v.n)
    [] v.t = "nan" -> <<"N", "a", "N">>
    [] v.t = "boolean" -> IF v.n = 1 THEN <<"t", "r", "u", "e">>
                          ELSE <<"f", "a", "l", "s", "e">>
    [] v.t = "null" -> <<"n", "u", "l", "l">>
    [] OTHER -> <<"u", "n", "d", "e", "f", "i", "n", "e", "d">>

\* Number.isFinite
IsFinite(v) == v.t = "number"

\* ------------------------------------------------------------ model
GAPass == <<"G", "A", " ", "P", "a", "s", "s">>
GAPassParking ==
  <<"G", "A", " ", "P", "a", "s", "s", " ", "+", " ",
    "P", "a", "r", "k", "i", "n", "g">>
VIPPass == <<"V", "I", "P", " ", "P", "a", "s", "s">>
FirstDayTicket ==
  <<"1", "s", "t", " ", "D", "a", "y", " ", "T", "i", "c", "k", "e", "t">>
SecondDayTicket ==
  <<"2", "n", "d", " ", "D", "a", "y", " ", "T", "i", "c", "k", "e", "t">>
WeekendParkingPass ==
  <<"W", "e", "e", "k", "e", "n", "d", " ", "P", "a", "r", "k", "i", "n", "g",
    " ", "P", "a", "s", "s">>
SingleDayParking ==
  <<"S", "i", "n", "g", "l", "e", " ", "D", "a", "y", " ",
    "P", "a", "r", "k", "i", "n", "g">>
allowedTickets ==
  {GAPass, GAPassParking, VIPPass, FirstDayTicket, SecondDayTicket,
   WeekendParkingPass, SingleDayParking}

\* /^[^\s@]+@[^\s@]+\.[^\s@]+$/.test(cs)
EmailRegexTest(cs) ==
  LET ats == {i \in 1..Len(cs) : cs[i] = "@"} IN
  /\ \A i \in 1..Len(cs) : ~IsSpace(cs[i])
  /\ Cardinality(ats) = 1
  /\ LET a == CHOOSE i \in ats : TRUE IN
     /\ a > 1
     /\ \E d \in (a + 2)..(Len(cs) - 1) : cs[d] = "."

\* ------------------------------------------- POST /api/tickets
\* server.js: the errors the handler collects, in the order it pushes them
validateServer(b) ==
  LET qtyNum == ToNumber(b.quantity) IN
  (IF ~Truthy(b.firstName) THEN <<"firstName is required">> ELSE <<>>)
  \o (IF ~Truthy(b.lastName) THEN <<"lastName is required">> ELSE <<>>)
  \o (IF ~Truthy(b.email) \/ ~EmailRegexTest(ToStr(b.email))
      THEN <<"valid email is required">> ELSE <<>>)
  \o (IF ~(b.ticketType.t = "string" /\ b.ticketType.s \in allowedTickets)
      THEN <<"invalid ticketType">> ELSE <<>>)
  \o (IF ~IsFinite(qtyNum) \/ qtyNum.n < 10 * QtyMin \/ qtyNum.n > 10 * QtyMax
      THEN <<"quantity must be 1-20">> ELSE <<>>)

\* v.trim() throws a TypeError unless v is a string
TrimThrows(v) == v.t # "string"

\* tickets.js (e-mail revision): `!v || !v.trim()` throws on a truthy non-string
validateEmailThrows(b) ==
  \/ Truthy(b.firstName) /\ TrimThrows(b.firstName)
  \/ Truthy(b.lastName) /\ TrimThrows(b.lastName)
  \/ Truthy(b.email) /\ TrimThrows(b.email)

validateEmail(b) ==
  (IF ~Truthy(b.firstName) \/ Trim(b.firstName.s) = <<>>
   THEN <<"First name is required.">> ELSE <<>>)
  \o (IF ~Truthy(b.lastName) \/ Trim(b.lastName.s) = <<>>
      THEN <<"Last name is required.">> ELSE <<>>)
  \o (IF ~Truthy(b.email) \/ Trim(b.email.s) = <<>>
      THEN <<"Email is required.">> ELSE <<>>)
  \o (IF ~Truthy(b.ticketType) THEN <<"Ticket type is required.">> ELSE <<>>)
  \o (IF ~Truthy(b.quantity)
         \/ (ToNumber(b.quantity).t = "number"
             /\ ToNumber(b.quantity).n < 10 * QtyMin)
      THEN <<"Quantity must be at least 1.">> ELSE <<>>)

\* `notes ?? ''`
NotesOrEmpty(v) == IF v.t \in {"undefined", "null"} THEN Str(<<>>) ELSE v

\* the object literal handed to Ticket.create throws when a .trim() does
buildThrows(b) ==
  \/ TrimThrows(b.firstName)
  \/ TrimThrows(b.lastName)
  \/ TrimThrows(b.email)
  \/ TrimThrows(NotesOrEmpty(b.notes))

\* the object literal handed to Ticket.create
buildRecord(b) ==
  [firstName |-> Str(Trim(b.firstName.s)),
   lastName |-> Str(Trim(b.lastName.s)),
   email |-> Str(Trim(b.email.s)),
   ticketType |-> b.ticketType,
   quantity |-> ToNumber(b.quantity),
   notes |-> Str(Trim(NotesOrEmpty(b.notes).s))]

\* ticketSchema: casting and setters (trim, lowercase) of a new document,
\* with the defaults createdAt (Date.now) and _id
castString(v) == IF v.t \in {"undefined", "null"} THEN v ELSE Str(ToStr(v))
newDocument(rec, clock, id) ==
  [id |-> id,
   createdAt |-> clock,
   firstName |-> Str(Trim(castString(rec.firstName).s)),
   lastName |-> Str(Trim(castString(rec.lastName).s)),
   email |-> Str(ToLowerCase(Trim(castString(rec.email).s))),
   ticketType |-> castString(rec.ticketType),
   quantity |-> rec.quantity,
   notes |-> Str(Trim(castString(rec.notes).s))]

\* ticketSchema: the validators run by save(); FALSE is a ValidationError
schemaValid(d) ==
  /\ d.firstName.s # <<>> /\ Len(d.firstName.s) <= NameMaxLen
  /\ d.lastName.s # <<>> /\ Len(d.lastName.s) <= NameMaxLen
  /\ d.email.s # <<>> /\ Len(d.email.s) <= EmailMaxLen
  /\ d.ticketType.t = "string" /\ d.ticketType.s \in allowedTickets
  /\ d.quantity.t = "number"
  /\ d.quantity.n >= 10 * QtyMin /\ d.quantity.n <= 10 * QtyMax
  /\ Len(d.notes.s) <= NotesMaxLen

NoDoc ==
  [id |-> 0, createdAt |-> 0, firstName |-> Undefined, lastName |-> Undefined,
   email |-> Undefined, ticketType |-> Undefined, quantity |-> Undefined,
   notes |-> Undefined]

\* faulty variant: every document gets the same _id
reusedObjectId(k) == 1

\* the _id mongoose gives the k-th document this process constructs
newObjectId(k) == k

\* faulty variant: the handler awaits the notification inside its try block
statusAwaitsMail(mailState) == IF mailState = "threw" THEN 500 ELSE 201

\* status of the answer once create has resolved, whatever the
\* notification call returned
statusAfterCreate(mailState) == 201

\* faulty variant: the answer carries the error it caught
leakErrorMessage(err) == err

\* body.message of the 500 answers
postErrorMessage(err) == "Error saving ticket"
listErrorMessage(err) == "Error fetching tickets"
exportErrorMessage(err) == "Error exporting tickets"

\* ------------------------------------------------------------ state
VARIABLES
  variant,    \* "server": src/server.js; "email": the tickets.js revision
  alive,      \* the process has not exited
  started,    \* the module body has run
  listening,  \* app.listen has been called
  conn,       \* startup connection: "none", "pending", "connected", "failed"
  now,        \* Date.now()
  posts,      \* POST /api/tickets requests, in arrival order
  store,      \* the tickets collection, in insertion order
  get,        \* the admin read request in flight, if any
  last,       \* the last answer to a GET request
  answers     \* number of POST requests answered so far

vars ==
  <<variant, alive, started, listening, conn, now, posts, store, get, last,
    answers>>

NoGet == [route |-> "none", at |-> 0]
NoAnswer ==
  [route |-> "none", status |-> 0, message |-> "", mongo |-> FALSE,
   docs |-> <<>>, csv |-> <<>>, logged |-> ""]

\* ---------------------------------------------------------- inputs
Al == <<"A", "l">>
Li == <<"L", "i">>
EmailA == <<"a", "@", "b", ".", "c", "o">>
EmailB == <<"b", "@", "b", ".", "c", "o">>
SaidHi == <<"H", "e", " ", "s", "a", "i", "d", " ", "\"", "h", "i", "\"">>

ValidA ==
  [firstName |-> Str(Al), lastName |-> Str(Li), email |-> Str(EmailA),
   ticketType |-> Str(GAPass), quantity |-> Num(2), notes |-> Undefined]
ValidB ==
  [firstName |-> Str(Li), lastName |-> Str(Al), email |-> Str(EmailB),
   ticketType |-> Str(VIPPass), quantity |-> Num(20), notes |-> Str(SaidHi)]
\* the request bodies the server specification receives
FewBodies ==
  {ValidA, ValidB,
   [ValidA EXCEPT !.firstName = Undefined],
   [ValidA EXCEPT !.firstName = Str(<<" ">>)],
   [ValidA EXCEPT !.firstName = Num(5)]}

\* ------------------------------------------------------------ startup
Init ==
  /\ variant \in {"server", "email"}
  /\ alive = TRUE
  /\ started = FALSE
  /\ listening = FALSE
  /\ conn = "none"
  /\ now = 0
  /\ posts = <<>>
  /\ store = <<>>
  /\ get = NoGet
  /\ last = NoAnswer
  /\ answers = 0

\* server.js calls app.listen in the same turn as mongoose.connect;
\* tickets.js awaits the connection first
listensBeforeConnected(v) == v = "server"

\* the module body: exit without MONGO_URI, else start connecting
Startup ==
  /\ alive /\ ~started
  /\ started' = TRUE
  /\ \E mongoUri \in BOOLEAN :
       IF ~mongoUri
       THEN /\ alive' = FALSE
            /\ UNCHANGED <<conn, listening>>
       ELSE /\ conn' = "pending"
            /\ listening' = listensBeforeConnected(variant)
            /\ UNCHANGED alive
  /\ UNCHANGED <<variant, now, posts, store, get, last, answers>>

ConnectOk ==
  /\ alive /\ conn = "pending"
  /\ conn' = "connected"
  /\ listening' = TRUE
  /\ UNCHANGED <<variant, alive, started, now, posts, store, get, last, answers>>

\* .catch -> process.exit(1); a rejected top-level await ends the process too
ConnectFail ==
  /\ alive /\ conn = "pending"
  /\ conn' = "failed"
  /\ alive' = FALSE
  /\ UNCHANGED <<variant, started, listening, now, posts, store, get, last, answers>>

Serving == alive /\ listening

Tick ==
  /\ now < MaxClock
  /\ now' = now + 1
  /\ UNCHANGED <<variant, alive, started, listening, conn, posts, store, get, last,
                 answers>>

\* ------------------------------------------------------------ POST
Answered(b, status, message, errors, logged, at) ==
  [body |-> b, pc |-> "done", doc |-> NoDoc, status |-> status,
   message |-> message, errors |-> errors, id |-> 0, logged |-> logged,
   mail |-> "none", mailLogged |-> FALSE, at |-> at]

Creating(b, d) ==
  [body |-> b, pc |-> "creating", doc |-> d, status |-> 0, message |-> "",
   errors |-> <<>>, id |-> 0, logged |-> "", mail |-> "none",
   mailLogged |-> FALSE, at |-> 0]

\* number of documents constructed so far
Constructed == Cardinality({i \in DOMAIN posts : posts[i].doc # NoDoc})

\* the synchronous part of the handler, up to `await Ticket.create(...)`
PostTickets(bodies, limit) ==
  /\ Serving /\ Len(posts) < limit
  /\ \E b \in bodies :
     LET threwEarly == variant = "email" /\ validateEmailThrows(b)
         errors == IF variant = "server" THEN validateServer(b)
                   ELSE validateEmail(b)
     IN
     IF threwEarly \/ (errors = <<>> /\ buildThrows(b))
     THEN /\ posts' = Append(posts, Answered(b, 500,
                 postErrorMessage("TypeError"), <<>>, "TypeError", answers + 1))
          /\ answers' = answers + 1
     ELSE IF errors # <<>>
     THEN /\ posts' = Append(posts, Answered(b, 400, "Validation failed",
                 errors, "", answers + 1))
          /\ answers' = answers + 1
     ELSE /\ posts' = Append(posts, Creating(b,
                 newDocument(buildRecord(b), now, newObjectId(Constructed + 1))))
          /\ UNCHANGED answers
  /\ UNCHANGED <<variant, alive, started, listening, conn, now, store, get, last>>

\* what sendTicketEmails has done when the handler goes on: the guest mail
\* is in flight, or the call already rejected (transporter unavailable)
MailStarts == {"guest+admin", "guest", "threw"}

\* Ticket.create resolved: the document is in the collection
CreateOk(i) ==
  /\ alive /\ conn = "connected"
  /\ posts[i].pc = "creating"
  /\ schemaValid(posts[i].doc)
  /\ store' = Append(store, posts[i].doc)
  /\ answers' = answers + 1
  /\ \E m \in (IF variant = "email" THEN MailStarts ELSE {"none"}) :
       posts' = [posts EXCEPT ![i] =
         [@ EXCEPT !.pc = "done", !.status = statusAfterCreate(m),
                   !.message = "Saved", !.id = posts[i].doc.id,
                   !.mail = m, !.mailLogged = (m = "threw"),
                   !.at = answers + 1]]
  /\ UNCHANGED <<variant, alive, started, listening, conn, now, get, last>>

\* faulty variant: the document is written although create is answered 500
CreateFailStores(i) ==
  /\ alive
  /\ posts[i].pc = "creating"
  /\ answers' = answers + 1
  /\ store' = Append(store, posts[i].doc)
  /\ posts' = [posts EXCEPT ![i] =
       [@ EXCEPT !.pc = "done", !.status = 500,
                 !.message = "Error saving ticket", !.logged = "StoreError",
                 !.at = answers + 1]]
  /\ UNCHANGED <<variant, alive, started, listening, conn, now, get, last>>

\* Ticket.create rejected: a ValidationError, or the store failed
CreateFail(i) ==
  /\ alive
  /\ posts[i].pc = "creating"
  /\ answers' = answers + 1
  /\ LET err == IF schemaValid(posts[i].doc) THEN "StoreError"
                ELSE "ValidationError"
     IN posts' = [posts EXCEPT ![i] =
          [@ EXCEPT !.pc = "done", !.status = 500,
                    !.message = postErrorMessage(err), !.logged = err,
                    !.at = answers + 1]]
  /\ UNCHANGED <<variant, alive, started, listening, conn, now, store, get, last>>

\* sendTicketEmails after its call returned: each sendMail resolves or rejects
MailGuestOk(i) ==
  /\ alive
  /\ posts[i].mail \in {"guest+admin", "guest"}
  /\ posts' = [posts EXCEPT ![i].mail =
                 IF posts[i].mail = "guest+admin" THEN "admin" ELSE "sent"]
  /\ UNCHANGED <<variant, alive, started, listening, conn, now, store, get, last,
                 answers>>

MailGuestFail(i) ==
  /\ alive
  /\ posts[i].mail \in {"guest+admin", "guest"}
  /\ posts' = [posts EXCEPT ![i].mail = "failedGuest", ![i].mailLogged = TRUE]
  /\ UNCHANGED <<variant, alive, started, listening, conn, now, store, get, last,
                 answers>>

MailAdminOk(i) ==
  /\ alive
  /\ posts[i].mail = "admin"
  /\ posts' = [posts EXCEPT ![i].mail = "sent"]
  /\ UNCHANGED <<variant, alive, started, listening, conn, now, store, get, last,
                 answers>>

MailAdminFail(i) ==
  /\ alive
  /\ posts[i].mail = "admin"
  /\ posts' = [posts EXCEPT ![i].mail = "failedAdmin", ![i].mailLogged = TRUE]
  /\ UNCHANGED <<variant, alive, started, listening, conn, now, store, get, last,
                 answers>>

\* ------------------------------------------------------------- GET
\* GET /api/health
Health ==
  /\ Serving
  /\ last' = [NoAnswer EXCEPT !.route = "health", !.status = 200,
                              !.mongo = (conn = "connected")]
  /\ UNCHANGED <<variant, alive, started, listening, conn, now, posts, store, get,
                 answers>>

\* the routes that read the collection
ReadRoutes(v) == IF v = "email" THEN {"list", "export"} ELSE {"list"}

\* the handler up to `await Ticket.find()...`
GetArrive(route) ==
  /\ Serving
  /\ get = NoGet
  /\ route \in ReadRoutes(variant)
  /\ get' = [route |-> route, at |-> answers]
  /\ UNCHANGED <<variant, alive, started, listening, conn, now, posts, store, last,
                 answers>>

\* faulty variant: .sort({createdAt: 1})
sortCreatedAtAsc(docs) ==
  {[i \in 1..Len(docs) |-> docs[p[i]]] : p \in
     {q \in Permutations(1..Len(docs)) :
        \A i, j \in 1..Len(docs) :
          i < j => docs[q[i]].createdAt <= docs[q[j]].createdAt}}

\* .sort({createdAt: -1}): the orders the store may return; documents
\* with equal createdAt come in either order
sortCreatedAtDesc(docs) ==
  {[i \in 1..Len(docs) |-> docs[p[i]]] : p \in
     {q \in Permutations(1..Len(docs)) :
        \A i, j \in 1..Len(docs) :
          i < j => docs[q[i]].createdAt >= docs[q[j]].createdAt}}

\* .limit(k)
limit(docs, k) == SubSeq(docs, 1, IF Len(docs) < k THEN Len(docs) ELSE k)

\* faulty variant: escape without .replace(/"/g, '""')
keepQuotes(cs) == cs

\* tickets.js escape
RECURSIVE doubleQuotes(_)
doubleQuotes(cs) ==
  IF cs = <<>> THEN <<>>
  ELSE (IF Head(cs) = "\"" THEN <<"\"", "\"">> ELSE <<Head(cs)>>)
       \o doubleQuotes(Tail(cs))
escape(v) ==
  IF v.t \in {"undefined", "null"} THEN <<>>
  ELSE <<"\"">> \o doubleQuotes(ToStr(v)) \o <<"\"">>

\* Array.prototype.join
RECURSIVE join(_, _)
join(parts, sep) ==
  IF parts = <<>> THEN <<>>
  ELSE IF Len(parts) = 1 THEN parts[1]
  ELSE parts[1] \o sep \o join(Tail(parts), sep)

header ==
  <<<<"c", "r", "e", "a", "t", "e", "d", "A", "t">>,
    <<"f", "i", "r", "s", "t", "N", "a", "m", "e">>,
    <<"l", "a", "s", "t", "N", "a", "m", "e">>,
    <<"e", "m", "a", "i", "l">>,
    <<"t", "i", "c", "k", "e", "t", "T", "y", "p", "e">>,
    <<"q", "u", "a", "n", "t", "i", "t", "y">>,
    <<"n", "o", "t", "e", "s">>>>

row(t) ==
  <<escape(DateOf(t.createdAt)), escape(t.firstName), escape(t.lastName),
    escape(t.email), escape(t.ticketType), escape(t.quantity),
    escape(t.notes)>>

exportCsv(docs) ==
  join(<<join(header, <<",">>)>>
       \o [i \in 1..Len(docs) |-> join(row(docs[i]), <<",">>)], <<"\n">>)

\* Ticket.find() resolved
FindOk ==
  /\ alive /\ conn = "connected"
  /\ get # NoGet
  /\ \E docs \in sortCreatedAtDesc(store) :
       last' = IF get.route = "list"
               THEN [NoAnswer EXCEPT !.route = "list", !.status = 200,
                                     !.docs = limit(docs, ListLimit)]
               ELSE [NoAnswer EXCEPT !.route = "export", !.status = 200,
                                     !.docs = docs, !.csv = exportCsv(docs)]
  /\ get' = NoGet
  /\ UNCHANGED <<variant, alive, started, listening, conn, now, posts, store,
                 answers>>

\* Ticket.find() rejected
FindFail ==
  /\ alive
  /\ get # NoGet
  /\ last' = [NoAnswer EXCEPT !.route = get.route, !.status = 500,
                !.message = (IF get.route = "list"
                             THEN listErrorMessage("StoreError")
                             ELSE exportErrorMessage("StoreError")),
                !.logged = "StoreError"]
  /\ get' = NoGet
  /\ UNCHANGED <<variant, alive, started, listening, conn, now, posts, store,
                 answers>>

\* -------------------------------------------------- specifications
\* src/server.js
InitServer == Init /\ variant = "server"

Next ==
  \/ Startup
  \/ ConnectOk
  \/ ConnectFail
  \/ Tick
  \/ PostTickets(FewBodies, MaxPosts)
  \/ \E i \in DOMAIN posts : CreateOk(i)
  \/ \E i \in DOMAIN posts : CreateFail(i)
  \/ Health
  \/ GetArrive("list")
  \/ FindOk
  \/ FindFail

Spec == InitServer /\ [][Next]_vars

\* either revision, with the notification and the export
NextAll ==
  \/ Startup
  \/ ConnectOk
  \/ ConnectFail
  \/ Tick
  \/ PostTickets(FewBodies, MaxMailPosts)
  \/ \E i \in DOMAIN posts : CreateOk(i)
  \/ \E i \in DOMAIN posts : CreateFail(i)
  \/ \E i \in DOMAIN posts : MailGuestOk(i)
  \/ \E i \in DOMAIN posts : MailGuestFail(i)
  \/ \E i \in DOMAIN posts : MailAdminOk(i)
  \/ \E i \in DOMAIN posts : MailAdminFail(i)
  \/ Health
  \/ \E route \in {"list", "export"} : GetArrive(route)
  \/ FindOk
  \/ FindFail

SpecAll == Init /\ [][NextAll]_vars

\* one POST /api/tickets, any body, on a server that is up
FirstNames ==
  {Undefined, Str(<<>>), Str(<<" ">>), Str(Al), Str(<<" ", "A", "l">>), Num(5),
   Str(Rep("a", NameMaxLen)), Str(Rep("a", NameMaxLen + 1))}
LastNames == {Undefined, Str(Li), Str(<<" ">>)}
Emails ==
  {Undefined, Str(<<"f", "o", "o">>), Str(<<"f", "o", "o", "@">>),
   Str(<<"@", "b", "a", "r", ".", "c", "o", "m">>), Str(EmailA),
   Str(<<"A", "@", "B", ".", "c", "o">>), Str(<<"a", "@", "b">>),
   Str(<<"a", "@", "b", "@", "c", ".", "d">>),
   Str(<<" ", "a", "@", "b", ".", "c", "o">>),
   Str(Rep("a", EmailMaxLen - 4) \o <<"@", "b", ".", "c", "o">>)}
TicketTypes ==
  {Undefined, Str(GAPass), Str(SingleDayParking),
   Str(<<"B", "o", "g", "u", "s">>)}
Quantities ==
  {Undefined, Null, True, Num(0), Num(1), Tenths(15), Num(20), Tenths(205),
   Num(21), Str(<<"5">>), Str(<<"1", ".", "5">>), Str(<<"a", "b", "c">>),
   Str(<<>>), NaN}
Notes == {Undefined, Str(SaidHi)}
AllBodies ==
  [firstName : FirstNames, lastName : LastNames, email : Emails,
   ticketType : TicketTypes, quantity : Quantities, notes : Notes]
  \cup {[ValidA EXCEPT !.notes = Num(5)],
        [ValidA EXCEPT !.notes = Str(Rep("a", NotesMaxLen))],
        [ValidA EXCEPT !.notes = Str(Rep("a", NotesMaxLen + 1))]}

InitPost ==
  /\ variant \in {"server", "email"}
  /\ alive = TRUE
  /\ started = TRUE
  /\ listening = TRUE
  /\ conn = "connected"
  /\ now = 0
  /\ posts = <<>>
  /\ store = <<>>
  /\ get = NoGet
  /\ last = NoAnswer
  /\ answers = 0

NextPost ==
  \/ PostTickets(AllBodies, 1)
  \/ \E i \in DOMAIN posts : CreateOk(i)
  \/ \E i \in DOMAIN posts : CreateFail(i)

SpecPost == InitPost /\ [][NextPost]_vars

\* GET /api/tickets/export over a collection that already holds records,
\* some of them without all fields (written before this schema)
CsvRecord(at, first, qty, notes) ==
  [id |-> 0, createdAt |-> at, firstName |-> first, lastName |-> Str(Li),
   email |-> Str(EmailA), ticketType |-> Str(GAPass), quantity |-> qty,
   notes |-> notes]
CsvRecords ==
  {CsvRecord(0, Str(Al), Num(2), Undefined),
   CsvRecord(1, Str(Al), Num(20), Str(SaidHi)),
   CsvRecord(1, Str(Li), Num(1), Str(<<>>)),
   CsvRecord(0, Str(<<"\"">>), Tenths(15), Null),
   CsvRecord(2, Str(Al), Num(10), Str(<<"a", ",", "b">>)),
   CsvRecord(0, Undefined, Num(3), Str(<<"\"", "\"">>))}
CsvStores ==
  {[k \in DOMAIN f |-> [f[k] EXCEPT !.id = k]] :
     f \in UNION {[1..n -> CsvRecords] : n \in 0..MaxDocs}}

InitCsv ==
  /\ variant = "email"
  /\ alive = TRUE
  /\ started = TRUE
  /\ listening = TRUE
  /\ conn = "connected"
  /\ now = 0
  /\ posts = <<>>
  /\ store \in CsvStores
  /\ get = NoGet
  /\ last = NoAnswer
  /\ answers = 0

NextCsv ==
  \/ GetArrive("export")
  \/ FindOk
  \/ FindFail

SpecCsv == InitCsv /\ [][NextCsv]_vars

\* ============================================================ claims
\* The field rules as the specification states them (section 3 and 4.1).
IsInteger(q) == q.t = "number" /\ q.n % 10 = 0
InRange(q) == q.t = "number" /\ q.n >= 10 * QtyMin /\ q.n <= 10 * QtyMax
EmailShape(cs) ==
  /\ Cardinality({i \in 1..Len(cs) : cs[i] = "@"}) = 1
  /\ \A i \in 1..Len(cs) : cs[i] # " "
  /\ cs[1] # "@"
  /\ \E d \in 1..Len(cs) :
       /\ cs[d] = "."
       /\ d < Len(cs)
       /\ \E a \in 1..(d - 2) : cs[a] = "@"

NameOk(v) ==
  v.t = "string" /\ Trim(v.s) # <<>> /\ Len(Trim(v.s)) <= NameMaxLen
EmailOk(v) ==
  v.t = "string" /\ v.s # <<>> /\ EmailShape(v.s) /\ Len(v.s) <= EmailMaxLen
TicketTypeOk(v) == v.t = "string" /\ v.s \in allowedTickets
QuantityOk(v) == IsInteger(ToNumber(v)) /\ InRange(ToNumber(v))
NotesOk(v) ==
  v.t \in {"undefined", "null"}
  \/ (v.t = "string" /\ Len(Trim(v.s)) <= NotesMaxLen)

\* the required fields a body gets wrong, in field order
InvalidFields(b) ==
  (IF NameOk(b.firstName) THEN <<>> ELSE <<"firstName">>)
  \o (IF NameOk(b.lastName) THEN <<>> ELSE <<"lastName">>)
  \o (IF EmailOk(b.email) THEN <<>> ELSE <<"email">>)
  \o (IF TicketTypeOk(b.ticketType) THEN <<>> ELSE <<"ticketType">>)
  \o (IF QuantityOk(b.quantity) THEN <<>> ELSE <<"quantity">>)
ValidSubmission(b) == InvalidFields(b) = <<>> /\ NotesOk(b.notes)

\* the field an error message is about
FieldOfMessage(m) ==
  CASE m \in {"firstName is required", "First name is required."} -> "firstName"
    [] m \in {"lastName is required", "Last name is required."} -> "lastName"
    [] m \in {"valid email is required", "Email is required."} -> "email"
    [] m \in {"invalid ticketType", "Ticket type is required."} -> "ticketType"
    [] OTHER -> "quantity"
FieldsOfErrors(errors) == [k \in 1..Len(errors) |-> FieldOfMessage(errors[k])]

\* a record that meets every field constraint of the data model
RecordOk(r) ==
  /\ r.firstName.t = "string" /\ r.firstName.s # <<>>
  /\ Trim(r.firstName.s) = r.firstName.s /\ Len(r.firstName.s) <= NameMaxLen
  /\ r.lastName.t = "string" /\ r.lastName.s # <<>>
  /\ Trim(r.lastName.s) = r.lastName.s /\ Len(r.lastName.s) <= NameMaxLen
  /\ r.email.t = "string" /\ Trim(r.email.s) = r.email.s
  /\ ToLowerCase(r.email.s) = r.email.s
  /\ r.email.s # <<>> /\ EmailShape(r.email.s)
  /\ Len(r.email.s) <= EmailMaxLen
  /\ r.ticketType.t = "string" /\ r.ticketType.s \in allowedTickets
  /\ IsInteger(r.quantity) /\ InRange(r.quantity)
  /\ r.notes.t = "string" /\ Len(r.notes.s) <= NotesMaxLen

\* C1: every record the POST handler passes to Ticket.create, and every
\* stored record, meets all field constraints (names non-empty, trimmed,
\* at most 80; email trimmed, lower-cased, shaped, at most 160; ticketType
\* enumerated; quantity an integer in 1..20; notes at most 1000).
C1_PassedRecordsValid ==
  /\ \A i \in DOMAIN posts :
       posts[i].doc # NoDoc => RecordOk(buildRecord(posts[i].body))
  /\ \A k \in DOMAIN store : RecordOk(store[k])

\* C2: a submission with a missing or invalid required field is answered
\* 400 with exactly one message per such field, in field order.
C2_OneErrorPerInvalidField ==
  \A i \in DOMAIN posts :
    (posts[i].pc = "done" /\ InvalidFields(posts[i].body) # <<>>)
    => /\ posts[i].status = 400
       /\ FieldsOfErrors(posts[i].errors) = InvalidFields(posts[i].body)

\* C10: with the other fields valid, and the store accepting writes, the
\* submission is accepted (201, stored quantity = submitted number) exactly
\* when quantity is an integer in 1..20; otherwise the answer is 400 with
\* the quantity message alone.
C10_QuantityBoundary ==
  \A i \in DOMAIN posts :
    LET b == posts[i].body IN
    (/\ posts[i].pc = "done"
     /\ posts[i].logged # "StoreError"
     /\ ValidSubmission([b EXCEPT !.quantity = Num(QtyMin)]))
    => IF QuantityOk(b.quantity)
       THEN /\ posts[i].status = 201
            /\ \E k \in DOMAIN store :
                 /\ store[k].id = posts[i].id
                 /\ store[k].quantity = ToNumber(b.quantity)
       ELSE /\ posts[i].status = 400
            /\ FieldsOfErrors(posts[i].errors) = <<"quantity">>

\* ------------------------------------------------ server.js claims
\* the step in which Ticket.find() of GET /api/tickets resolves
ListAnswered == get.route = "list" /\ get' = NoGet /\ last'.status = 200
\* POST i was answered 201, no submission has been answered since, and
\* the GET in flight was issued after that answer
LatestSaved(i) ==
  posts[i].status = 201 /\ posts[i].at = answers /\ get.at >= posts[i].at
NonIncreasing(docs) ==
  \A j, k \in 1..Len(docs) : j < k => docs[j].createdAt >= docs[k].createdAt
StrictlyNewest(i) ==
  \A k \in DOMAIN store :
    store[k].id # posts[i].id => store[k].createdAt < posts[i].doc.createdAt

ValidPosts == {i \in DOMAIN posts : ValidSubmission(posts[i].body)}
DistinctEmails ==
  \A i, j \in ValidPosts : i # j => posts[i].body.email # posts[j].body.email
StoredOnce(i) ==
  Cardinality({k \in DOMAIN store : store[k].id = posts[i].id}) = 1

C8_HandlersRunOnlyConnected ==
  [][(\/ Len(posts') > Len(posts)
      \/ (get = NoGet /\ get' # NoGet)
      \/ (last' # last /\ last'.route = "health"))
     => conn = "connected"]_vars

\* POST i gets its answer, with this status, in the step
NewlyAnswered(i, status) ==
  /\ i \in DOMAIN posts' /\ posts'[i].status = status
  /\ (i \in DOMAIN posts => posts[i].status = 0)

\* C9: the store changes only by a POST answered 201, which appends one
\* new record and leaves the others as they were; a POST answered 400 or
\* 500 and every GET leave it unchanged.
C9_StoreChangesOnlyBySavedPost ==
  [][/\ store' # store =>
          \E i \in DOMAIN posts' :
            /\ NewlyAnswered(i, 201)
            /\ Len(store') = Len(store) + 1
            /\ SubSeq(store', 1, Len(store)) = store
            /\ store'[Len(store')].id = posts'[i].id
            /\ \A k \in DOMAIN store : store[k].id # posts'[i].id
     /\ \A i \in DOMAIN posts' :
          /\ NewlyAnswered(i, 201) => Len(store') = Len(store) + 1
          /\ (NewlyAnswered(i, 400) \/ NewlyAnswered(i, 500)) => store' = store
     /\ (last' # last \/ get' # get) => store' = store]_vars

C9_Witness ==
  /\ Len(store) = 2 /\ store[1].id # store[2].id
  /\ \A i \in DOMAIN posts : posts[i].status = 201
  /\ last.route = "list" /\ last.status = 200 /\ last.docs = <<store[1]>>

\* ------------------------------------------- tickets.js claims
MailFailed == {"failedGuest", "failedAdmin", "threw"}
MailFinal == MailFailed \cup {"sent"}
Created(ps, st, i) ==
  ps[i].doc # NoDoc /\ \E k \in DOMAIN st : st[k].id = ps[i].doc.id

\* C4: the notification starts only after create succeeded; once create
\* has succeeded the answer is 201 {message: "Saved", id} whatever the
\* notification does; a notification failure is only logged, is never
\* retried and never changes the answer.
C4_NotificationDetached ==
  [][\A i \in DOMAIN posts' :
       /\ posts'[i].mail # "none" => Created(posts', store', i)
       /\ Created(posts', store', i) =>
            /\ posts'[i].status = 201
            /\ posts'[i].message = "Saved"
            /\ posts'[i].id = posts'[i].doc.id
            /\ posts'[i].errors = <<>>
       /\ posts'[i].mailLogged <=> posts'[i].mail \in MailFailed
       /\ i \in DOMAIN posts =>
            /\ posts[i].mail \in MailFinal => posts'[i].mail = posts[i].mail
            /\ posts[i].status = 201 =>
                 posts'[i].status = 201 /\ posts'[i].id = posts[i].id]_vars

C4_Witness ==
  \E i \in DOMAIN posts :
    /\ posts[i].status = 201 /\ posts[i].message = "Saved"
    /\ posts[i].mail = "failedAdmin" /\ posts[i].mailLogged

GenericMessages ==
  {"Error saving ticket", "Error fetching tickets", "Error exporting tickets"}

\* C7: a store failure (create, find) or a throw in the handler is
\* answered 500 {message} with a fixed message and no detail of the error;
\* for POST nothing is stored and no notification starts; nothing else of
\* the process changes, so later requests are handled as usual.
C7_FailuresAnswered500 ==
  [][/\ \A i \in DOMAIN posts' :
          /\ posts'[i].logged # "" <=> posts'[i].status = 500
          /\ posts'[i].status = 500 =>
               /\ posts'[i].message = "Error saving ticket"
               /\ posts'[i].message # posts'[i].logged
               /\ posts'[i].errors = <<>> /\ posts'[i].id = 0
               /\ posts'[i].mail = "none"
               /\ ~Created(posts', store', i)
          /\ NewlyAnswered(i, 500) =>
               /\ \A j \in DOMAIN posts : j # i => posts'[j] = posts[j]
               /\ UNCHANGED <<alive, listening, conn, store, get, last>>
     /\ last'.logged # "" <=> last'.status = 500
     /\ last'.status = 500 =>
          /\ last'.message \in GenericMessages
          /\ last'.message # last'.logged
          /\ last'.docs = <<>> /\ last'.csv = <<>>
     /\ (last'.status = 500 /\ get # NoGet /\ get' = NoGet) =>
          UNCHANGED <<alive, listening, conn, store, posts>>]_vars

C7_Witness ==
  /\ \E i \in DOMAIN posts :
       posts[i].status = 500 /\ posts[i].logged = "StoreError"
  /\ store = <<>>
  /\ last.route = "export" /\ last.status = 500

\* --------------------------------------------------- CSV claims
\* A reader of the CSV text: rows of fields, each field with its text
\* (doubled quotes undone) and whether it was written in quotes.
NoField == [quoted |-> FALSE, text |-> <<>>]
\* positions of the separator c that lie outside quotes
Separators(cs, c) ==
  {i \in 1..Len(cs) :
     /\ cs[i] = c
     /\ Cardinality({j \in 1..(i - 1) : cs[j] = "\""}) % 2 = 0}
Kth(S, k) == CHOOSE x \in S : Cardinality({y \in S : y < x}) = k - 1
SplitOutsideQuotes(cs, c) ==
  LET seps == Separators(cs, c)
      n == Cardinality(seps) + 1
  IN [k \in 1..n |->
        SubSeq(cs, IF k = 1 THEN 1 ELSE Kth(seps, k - 1) + 1,
                   IF k = n THEN Len(cs) ELSE Kth(seps, k) - 1)]
RECURSIVE Undouble(_)
Undouble(cs) ==
  IF cs = <<>> THEN <<>>
  ELSE IF Head(cs) # "\"" THEN <<Head(cs)>> \o Undouble(Tail(cs))
  ELSE IF Len(cs) >= 2 /\ cs[2] = "\""
       THEN <<"\"">> \o Undouble(Tail(Tail(cs)))
  ELSE <<"unpaired quote">>
ReadField(raw) ==
  IF Len(raw) >= 2 /\ raw[1] = "\"" /\ raw[Len(raw)] = "\""
  THEN [quoted |-> TRUE, text |-> Undouble(SubSeq(raw, 2, Len(raw) - 1))]
  ELSE [quoted |-> FALSE, text |-> raw]
CsvRows(cs) ==
  LET lines == SplitOutsideQuotes(cs, "\n") IN
  [r \in DOMAIN lines |->
     LET raws == SplitOutsideQuotes(lines[r], ",") IN
     [f \in DOMAIN raws |-> ReadField(raws[f])]]

HeaderRow == [k \in 1..Len(header) |-> [quoted |-> FALSE, text |-> header[k]]]
Values(t) ==
  <<DateOf(t.createdAt), t.firstName, t.lastName, t.email, t.ticketType,
    t.quantity, t.notes>>
Missing(v) == v.t \in {"undefined", "null"}
Quoted(v) == [quoted |-> TRUE, text |-> IF Missing(v) THEN <<>> ELSE ToStr(v)]
Exported == last.route = "export" /\ last.status = 200
SameRecords(docs, coll) ==
  /\ Len(docs) = Len(coll)
  /\ \A k \in DOMAIN coll : \E j \in DOMAIN docs : docs[j] = coll[k]

HeaderLine ==
  <<"c", "r", "e", "a", "t", "e", "d", "A", "t", ",",
    "f", "i", "r", "s", "t", "N", "a", "m", "e", ",",
    "l", "a", "s", "t", "N", "a", "m", "e", ",",
    "e", "m", "a", "i", "l", ",",
    "t", "i", "c", "k", "e", "t", "T", "y", "p", "e", ",",
    "q", "u", "a", "n", "t", "i", "t", "y", ",",
    "n", "o", "t", "e", "s">>

\* the export is the header line and one line per record, newest first,
\* with no line after the last; absent(v) is how a missing field reads back
CsvDocument(absent(_)) ==
  Exported =>
    LET rows == CsvRows(last.csv) IN
    /\ SameRecords(last.docs, store) /\ NonIncreasing(last.docs)
    /\ last.csv[Len(last.csv)] # "\n"
    /\ Len(rows) = Len(store) + 1
    /\ rows[1] = HeaderRow
    /\ SubSeq(last.csv, 1, Len(HeaderLine)) = HeaderLine
    /\ store = <<>> => last.csv = HeaderLine
    /\ \A r \in DOMAIN last.docs :
         /\ Len(rows[r + 1]) = Len(header)
         /\ \A f \in DOMAIN header :
              LET v == Values(last.docs[r])[f] IN
              rows[r + 1][f] = IF Missing(v) THEN absent(v) ELSE Quoted(v)

AbsentIsEmpty(v) == NoField
====
